---------------------------- MODULE Spec2Model ----------------------------
(*************************************************************************)
(* Model of main.py: a webhook that maps one purchase onto a YNAB        *)
(* transaction (parse_amount, parse_date, the two directory lookups,     *)
(* parse_transaction) and posts it (post_transaction, process_request).  *)
(*                                                                       *)
(* Python strings on which the code does more than compare (amount and   *)
(* date) are sequences of one-character strings; strings that are only   *)
(* compared or copied (card, merchant, ids) are TLA+ strings.  An        *)
(* optional value is a sequence of length at most one: None is <<>>.     *)
(*************************************************************************)
EXTENDS Integers, Sequences, FiniteSets, TLC

VARIABLES
    ynab_secrets,     \* the directory loaded at import time (main.py:46)
    iso_extended,     \* whether the interpreter's date.fromisoformat is the 3.11+ one
    pc,               \* position in the running function
    method,           \* request.method
    data,             \* request.get_json(), once read
    transactionDto,   \* the TransactionPostDto, once built
    kwargs,           \* parse_transaction: the keyword arguments evaluated so far
    transaction,      \* the ynab.NewTransaction, once mapped
    failure,          \* the exception caught by process_request, if any
    create_calls,     \* number of api_instance.create_transaction calls
    resp,             \* the flask response, once made
    arg,              \* argument of a function called on its own
    ret               \* its outcome

vars == <<ynab_secrets, iso_extended, pc, method, data, transactionDto, kwargs,
          transaction, failure, create_calls, resp, arg, ret>>

None == <<>>
Some(x) == <<x>>

-----------------------------------------------------------------------------
(* Bounds of the model *)

\* longest amount string drawn from AmountAlphabet
MaxAmountLen == 4
\* most entries in ynab_secrets["accounts"]
MaxAccounts == 3
\* most entries in ynab_secrets["merchants"]
MaxMerchants == 2
\* largest month number written into a date string
MaxMonth == 13
\* largest day number written into a date string
MaxDay == 32

-----------------------------------------------------------------------------
(* Characters and strings *)

Digits == <<"0", "1", "2", "3", "4", "5", "6", "7", "8", "9">>

IsDigit(c) == \E i \in 1..10 : Digits[i] = c

DigitVal(c) == (CHOOSE i \in 1..10 : Digits[i] = c) - 1

\* str.strip() removes these (the model's inputs hold no other whitespace)
Whitespace == {" ", "\t", "\n"}

AllDigits(s) == \A i \in 1..Len(s) : IsDigit(s[i])

RECURSIVE DigitsToInt(_)
DigitsToInt(s) ==
    IF s = <<>> THEN 0
    ELSE 10 * DigitsToInt(SubSeq(s, 1, Len(s) - 1)) + DigitVal(s[Len(s)])

RECURSIVE Pow10(_)
Pow10(k) == IF k = 0 THEN 1 ELSE 10 * Pow10(k - 1)

\* every sequence over S of length at most n
SeqsUpTo(S, n) == UNION {[1..k -> S] : k \in 0..n}

\* amount_str.replace("$", "") : every occurrence is removed
RECURSIVE ReplaceDollar(_)
ReplaceDollar(s) ==
    IF s = <<>> THEN <<>>
    ELSE IF s[1] = "$" THEN ReplaceDollar(Tail(s))
    ELSE <<s[1]>> \o ReplaceDollar(Tail(s))

RECURSIVE LStrip(_)
LStrip(s) ==
    IF s # <<>> /\ s[1] \in Whitespace THEN LStrip(Tail(s)) ELSE s

RECURSIVE RStrip(_)
RStrip(s) ==
    IF s # <<>> /\ s[Len(s)] \in Whitespace
    THEN RStrip(SubSeq(s, 1, Len(s) - 1)) ELSE s

\* str.strip()
Strip(s) == RStrip(LStrip(s))

-----------------------------------------------------------------------------
(* IEEE-754 binary64, as far as int(float(s) * 1000) needs it.  A finite     *)
(* non-zero double is [m, e]: m its 53 significand bits, most significant    *)
(* first (m[1] = 1), e the exponent of m[1]; its magnitude is                *)
(* (m as an integer) * 2^(e - 52).                                           *)

\* significand bits of a binary64
Precision == 53

\* the w bits of n < 2^w, most significant first
BitsOf(n, w) == [i \in 1..w |-> (n \div 2^(w - i)) % 2]

\* number of bits of n (n < 2^30)
BitLen(n) == IF n = 0 THEN 0 ELSE CHOOSE k \in 1..30 : 2^(k - 1) <= n /\ n < 2^k

IntBits(n) == BitsOf(n, BitLen(n))

RECURSIVE BitsToInt(_)
BitsToInt(b) ==
    IF Len(b) = 0 THEN 0
    ELSE IF Len(b) = 1 THEN b[1]
    ELSE LET h == Len(b) \div 2
         IN  BitsToInt(SubSeq(b, 1, h)) * 2^(Len(b) - h)
               + BitsToInt(SubSeq(b, h + 1, Len(b)))

\* b + 1 on bits of fixed width; an all-ones b wraps to zeros
IncBits(b) ==
    IF \A i \in 1..Len(b) : b[i] = 1 THEN [i \in 1..Len(b) |-> 0]
    ELSE LET k == CHOOSE i \in 1..Len(b) :
                      b[i] = 0 /\ \A j \in (i + 1)..Len(b) : b[j] = 1
         IN  [i \in 1..Len(b) |-> IF i < k THEN b[i] ELSE IF i = k THEN 1 ELSE 0]

\* round-to-nearest, ties-to-even, of bits (at least Precision + 1 of them,
\* bits[1] = 1, leading exponent e); sticky: a non-zero tail was already cut
RoundNearestEven(bits, e, sticky) ==
    LET keep  == SubSeq(bits, 1, Precision)
        guard == bits[Precision + 1]
        rest  == sticky \/ \E i \in (Precision + 2)..Len(bits) : bits[i] = 1
        up    == guard = 1 /\ (rest \/ keep[Precision] = 1)
        inc   == IncBits(keep)
    IN  IF ~up THEN [m |-> keep, e |-> e]
        ELSE IF inc[1] = 1 THEN [m |-> inc, e |-> e]
        ELSE [m |-> <<1>> \o SubSeq(inc, 2, Precision), e |-> e + 1]

\* long division: the first 10 * n bits of the binary expansion of rem / D
\* (rem < D), ten bits a step, and the remainder left after them
RECURSIVE FracBits(_, _, _)
FracBits(rem, D, n) ==
    IF n = 0 THEN [bits |-> <<>>, rem |-> rem]
    ELSE LET x    == rem * 1024
             rest == FracBits(x % D, D, n - 1)
         IN  [bits |-> BitsOf(x \div D, 10) \o rest.bits, rem |-> rest.rem]

\* the double nearest to N / D (N > 0): what float() makes of a decimal
\* string.  N / D > 2^-BitLen(D), so the bits taken hold Precision + 1
\* significant ones.
NearestDouble(N, D) ==
    LET whole == IntBits(N \div D)
        frac  == FracBits(N % D, D, (Precision + 1 + BitLen(D)) \div 10 + 1)
        all   == whole \o frac.bits
        first == CHOOSE i \in 1..Len(all) :
                     all[i] = 1 /\ \A j \in 1..(i - 1) : all[j] = 0
    IN  RoundNearestEven(SubSeq(all, first, Len(all)), Len(whole) - first,
                         frac.rem # 0)

\* bits * c + carry on bits most significant first, 18 bits a step
RECURSIVE MulSmall(_, _, _)
MulSmall(bits, c, carry) ==
    IF bits = <<>> THEN IntBits(carry)
    ELSE LET n == Len(bits)
             w == IF n < 18 THEN n ELSE 18
             v == BitsToInt(SubSeq(bits, n - w + 1, n)) * c + carry
         IN  MulSmall(SubSeq(bits, 1, n - w), c, v \div 2^w) \o BitsOf(v % 2^w, w)

\* x * 1000 in binary64: the exact product, rounded once
FloatMul1000(x) ==
    LET p == MulSmall(x.m, 1000, 0)
    IN  RoundNearestEven(p, x.e + Len(p) - Precision, FALSE)

\* int(x) of a finite double: truncation toward zero (magnitude)
FloatTrunc(x) ==
    IF x.e < 0 THEN 0
    ELSE IF x.e + 1 <= Precision THEN BitsToInt(SubSeq(x.m, 1, x.e + 1))
    ELSE BitsToInt(x.m \o [i \in 1..(x.e + 1 - Precision) |-> 0])

-----------------------------------------------------------------------------
(* float(str): sign, then inf / infinity / nan, or digits with at most one   *)
(* point and at least one digit.  The inputs of this model hold no exponent  *)
(* marker and no underscore, the two other things float() reads.             *)

InfWords == {<<"i", "n", "f">>, <<"i", "n", "f", "i", "n", "i", "t", "y">>}
NanWords == {<<"n", "a", "n">>}

PointAt(s) == IF \E i \in 1..Len(s) : s[i] = "."
              THEN CHOOSE i \in 1..Len(s) : s[i] = "." /\ \A j \in 1..(i - 1) : s[j] # "."
              ELSE 0

\* [kind: "error"] | [kind: "inf" | "nan", neg] | [kind: "zero", neg]
\*   | [kind: "finite", neg, m, e]
ParseFloat(str) ==
    LET s    == Strip(str)
        sgn  == s # <<>> /\ s[1] \in {"+", "-"}
        neg  == s # <<>> /\ s[1] = "-"
        body == IF sgn THEN Tail(s) ELSE s
        p    == PointAt(body)
        ip   == IF p = 0 THEN body ELSE SubSeq(body, 1, p - 1)
        fp   == IF p = 0 THEN <<>> ELSE SubSeq(body, p + 1, Len(body))
        N    == DigitsToInt(ip \o fp)
    IN  IF body \in InfWords THEN [kind |-> "inf", neg |-> neg]
        ELSE IF body \in NanWords THEN [kind |-> "nan", neg |-> neg]
        ELSE IF ~(AllDigits(ip) /\ AllDigits(fp) /\ Len(ip) + Len(fp) > 0)
        THEN [kind |-> "error"]
        ELSE IF N = 0 THEN [kind |-> "zero", neg |-> neg]
        ELSE LET d == NearestDouble(N, Pow10(Len(fp)))
             IN  [kind |-> "finite", neg |-> neg, m |-> d.m, e |-> d.e]

-----------------------------------------------------------------------------
(* The outcome of a call: a returned value or a raised exception.  The kinds *)
(* of exception are named after what they report: parse_amount's TypeError   *)
(* is "InvalidAmount", parse_date's TypeError "InvalidDate", the lookup's    *)
(* ValueError "AccountNotFound"; an exception the functions do not raise     *)
(* themselves keeps its Python name.                                         *)

Return(v) == [ok |-> TRUE, val |-> v]
Raise(kind) == [ok |-> FALSE, err |-> kind]

\* int(float(amount_str) * 1000), or the exception it raises
IntOfFloatTimes1000(amount_str) ==
    LET f == ParseFloat(amount_str)
    IN  CASE f.kind = "error"  -> Raise("ValueError")
          [] f.kind = "nan"    -> Raise("ValueError")
          [] f.kind = "inf"    -> Raise("OverflowError")
          [] f.kind = "zero"   -> Return(0)
          [] f.kind = "finite" ->
               LET t == FloatTrunc(FloatMul1000(f))
               IN  Return(IF f.neg THEN 0 - t ELSE t)

parse_amount(amount_str) ==
    LET s == Strip(ReplaceDollar(amount_str))
        r == IntOfFloatTimes1000(s)
    IN  IF ~r.ok /\ r.err = "ValueError" THEN Raise("InvalidAmount") ELSE r

-----------------------------------------------------------------------------
(* parse_date *)

\* date_str.split("T")[0]
BeforeFirstT(s) ==
    IF \E i \in 1..Len(s) : s[i] = "T"
    THEN SubSeq(s, 1, (CHOOSE i \in 1..Len(s) :
                           s[i] = "T" /\ \A j \in 1..(i - 1) : s[j] # "T") - 1)
    ELSE s

is_leap(y) == y % 4 = 0 /\ (y % 100 # 0 \/ y % 400 = 0)

days_in_month(y, m) ==
    IF m = 2 THEN (IF is_leap(y) THEN 29 ELSE 28)
    ELSE IF m \in {4, 6, 9, 11} THEN 30 ELSE 31

\* datetime.date(y, m, d), which raises ValueError out of range
NewDate(y, m, d) ==
    IF 1 <= y /\ y <= 9999 /\ 1 <= m /\ m <= 12 /\ 1 <= d /\ d <= days_in_month(y, m)
    THEN Return([year |-> y, month |-> m, day |-> d])
    ELSE Raise("ValueError")

\* the n digits of s from position p on, or -1 (the string ends, or a
\* character is no digit)
DigitsAt(s, p, n) ==
    IF p + n - 1 <= Len(s) /\ AllDigits(SubSeq(s, p, p + n - 1))
    THEN DigitsToInt(SubSeq(s, p, p + n - 1)) ELSE -1

\* date.fromisoformat up to Python 3.10: YYYY-MM-DD and nothing else
FromIsoFormatStrict(s) ==
    IF /\ Len(s) = 10
       /\ DigitsAt(s, 1, 4) >= 0 /\ s[5] = "-"
       /\ DigitsAt(s, 6, 2) >= 0 /\ s[8] = "-"
       /\ DigitsAt(s, 9, 2) >= 0
    THEN NewDate(DigitsAt(s, 1, 4), DigitsAt(s, 6, 2), DigitsAt(s, 9, 2))
    ELSE Raise("ValueError")

\* date.fromisoformat from Python 3.11 on: a string of 7, 8 or 10 characters,
\* the separators both there or both missing.  (The week forms, YYYY-Www-D, are
\* left out: no input of this model holds a "W".)
FromIsoFormatExtended(s) ==
    LET sep   == Len(s) >= 5 /\ s[5] = "-"
        pm    == IF sep THEN 6 ELSE 5
        pd    == IF sep THEN 9 ELSE 7
    IN  IF /\ Len(s) \in {7, 8, 10}
           /\ DigitsAt(s, 1, 4) >= 0
           /\ DigitsAt(s, pm, 2) >= 0
           /\ sep => (Len(s) >= 8 /\ s[8] = "-")
           /\ DigitsAt(s, pd, 2) >= 0
        THEN NewDate(DigitsAt(s, 1, 4), DigitsAt(s, pm, 2), DigitsAt(s, pd, 2))
        ELSE Raise("ValueError")

fromisoformat(s) ==
    IF iso_extended THEN FromIsoFormatExtended(s) ELSE FromIsoFormatStrict(s)

parse_date(date_str) ==
    LET r == fromisoformat(BeforeFirstT(date_str))
    IN  IF ~r.ok /\ r.err = "ValueError" THEN Raise("InvalidDate") ELSE r

-----------------------------------------------------------------------------
(* The directory lookups *)

FirstIndex(S) == CHOOSE i \in S : \A j \in S : i <= j

\* as get_account_id_from_card_name, but a later entry of the same name
\* overwrites an earlier one: the last match is returned
get_account_id_last_match(card_name) ==
    LET accounts == ynab_secrets.accounts
        hits     == {i \in 1..Len(accounts) : accounts[i].name = card_name}
    IN  IF hits = {} THEN Raise("AccountNotFound")
        ELSE Return(accounts[CHOOSE i \in hits : \A j \in hits : j <= i].id)

get_account_id_from_card_name(card_name) ==
    LET accounts == ynab_secrets.accounts
        hits     == {i \in 1..Len(accounts) : accounts[i].name = card_name}
    IN  IF hits = {} THEN Raise("AccountNotFound")
        ELSE Return(accounts[FirstIndex(hits)].id)

\* as get_category_id_from_merchant_name, but an unknown merchant falls back
\* on the first entry of the directory
get_category_id_with_default(merchant_name) ==
    LET merchants == ynab_secrets.merchants
        hits      == {i \in 1..Len(merchants) : merchants[i].name = merchant_name}
    IN  IF hits # {} THEN merchants[FirstIndex(hits)].category_id
        ELSE IF merchants # <<>> THEN merchants[1].category_id
        ELSE None

\* returns an optional: merchant.get("category_id") of the first match, or None
get_category_id_from_merchant_name(merchant_name) ==
    LET merchants == ynab_secrets.merchants
        hits      == {i \in 1..Len(merchants) : merchants[i].name = merchant_name}
    IN  IF hits = {} THEN None
        ELSE merchants[FirstIndex(hits)].category_id

-----------------------------------------------------------------------------
(* parse_amount called on its own *)

AmountAlphabet == {"$", " ", "-", ".", "0", "1", "2", "a"}

Str_6_22   == <<"$", "6", ".", "2", "2">>
Str_m3_5   == <<"-", "3", ".", "5">>
Str_abc    == <<"a", "b", "c">>
Str_dd5    == <<"$", "$", "5">>
Str_1_2_3  == <<"1", ".", "2", ".", "3">>
Str_inf    == <<"i", "n", "f">>
Str_nan    == <<"n", "a", "n">>
Str_45_00  == <<"$", "4", "5", ".", "0", "0">>
Str_2_01   == <<"$", "2", ".", "0", "1">>
Str_1_2346 == <<"1", ".", "2", "3", "4", "6">>
Str_p7     == <<"+", "7">>

NamedAmounts == {Str_6_22, Str_m3_5, <<>>, Str_abc, Str_dd5, Str_1_2_3, Str_inf,
                 Str_nan, Str_45_00, Str_2_01, Str_1_2346, Str_p7}

AmountInputs == SeqsUpTo(AmountAlphabet, MaxAmountLen) \cup NamedAmounts

InitAmount ==
    /\ ynab_secrets = [accounts |-> <<>>, merchants |-> <<>>]
    /\ iso_extended = FALSE
    /\ method = "" /\ data = None /\ transactionDto = None /\ kwargs = <<>>
    /\ transaction = None /\ failure = None /\ create_calls = 0 /\ resp = None
    /\ pc = "parse_amount"
    /\ arg \in AmountInputs
    /\ ret = None

CallParseAmount ==
    /\ pc = "parse_amount"
    /\ ret' = Some(parse_amount(arg))
    /\ pc' = "returned"
    /\ UNCHANGED <<ynab_secrets, iso_extended, method, data, transactionDto,
                   kwargs, transaction, failure, create_calls, resp, arg>>

NextAmount == CallParseAmount

SpecAmount == InitAmount /\ [][NextAmount]_vars

-----------------------------------------------------------------------------
(* parse_date called on its own *)

Format2(n) == <<Digits[((n \div 10) % 10) + 1], Digits[(n % 10) + 1]>>
Format4(n) == Format2(n \div 100) \o Format2(n % 100)

DateYears == {0, 1900, 2000, 2024, 2025}
DateSeparators == {<<>>, <<"-">>}
Str_time == <<"T", "2", "1", ":", "2", "6", ":", "4", "5", "-", "0", "4", ":", "0", "0">>
DateSuffixes == {<<>>, Str_time, <<"x">>}

Str_not_a_date == <<"n", "o", "t", "-", "a", "-", "d", "a", "t", "e">>
Str_2025_8_9   == <<"2", "0", "2", "5", "-", "8", "-", "9">>
Str_slashes    == <<"2", "0", "2", "5", "/", "0", "8", "/", "0", "9">>

NamedDates == {Str_not_a_date, Str_2025_8_9, Str_slashes, <<>>, <<"T">>}

DateInputs ==
    {Format4(y) \o s1 \o Format2(m) \o s2 \o Format2(d) \o t :
        y \in DateYears, s1 \in DateSeparators, m \in 0..MaxMonth,
        s2 \in DateSeparators, d \in 0..MaxDay, t \in DateSuffixes}
    \cup NamedDates

InitDate ==
    /\ ynab_secrets = [accounts |-> <<>>, merchants |-> <<>>]
    /\ iso_extended \in BOOLEAN
    /\ method = "" /\ data = None /\ transactionDto = None /\ kwargs = <<>>
    /\ transaction = None /\ failure = None /\ create_calls = 0 /\ resp = None
    /\ pc = "parse_date"
    /\ arg \in DateInputs
    /\ ret = None

CallParseDate ==
    /\ pc = "parse_date"
    /\ ret' = Some(parse_date(arg))
    /\ pc' = "returned"
    /\ UNCHANGED <<ynab_secrets, iso_extended, method, data, transactionDto,
                   kwargs, transaction, failure, create_calls, resp, arg>>

NextDate == CallParseDate

SpecDate == InitDate /\ [][NextDate]_vars

-----------------------------------------------------------------------------
(* get_account_id_from_card_name called on its own *)

CardNames == {"Chase", "chase", "Chase "}
AccountIds == {"A1", "A2"}
AccountEntries == [name : CardNames, id : AccountIds]

InitLookup ==
    /\ ynab_secrets \in [accounts : SeqsUpTo(AccountEntries, MaxAccounts),
                         merchants : {<<>>}]
    /\ iso_extended = FALSE
    /\ method = "" /\ data = None /\ transactionDto = None /\ kwargs = <<>>
    /\ transaction = None /\ failure = None /\ create_calls = 0 /\ resp = None
    /\ pc = "get_account_id_from_card_name"
    /\ arg \in CardNames
    /\ ret = None

CallGetAccountId ==
    /\ pc = "get_account_id_from_card_name"
    /\ ret' = Some(get_account_id_from_card_name(arg))
    /\ pc' = "returned"
    /\ UNCHANGED <<ynab_secrets, iso_extended, method, data, transactionDto,
                   kwargs, transaction, failure, create_calls, resp, arg>>

NextLookup == CallGetAccountId

SpecLookup == InitLookup /\ [][NextLookup]_vars

-----------------------------------------------------------------------------
(* process_request: one request, from its arrival to its response *)

Fields == {"amount", "name", "card", "merchant", "date"}

Str_2025_08_09 == <<"2", "0", "2", "5", "-", "0", "8", "-", "0", "9">>
Str_2025_13_40 == <<"2", "0", "2", "5", "-", "1", "3", "-", "4", "0">>
Str_20250809   == <<"2", "0", "2", "5", "0", "8", "0", "9">>

RequestAmounts == {Str_6_22, Str_45_00, Str_m3_5, Str_abc, Str_inf}
RequestDates == {Str_2025_08_09 \o Str_time, Str_2025_13_40, Str_20250809}
RequestCards == {"Chase", "Amex"}
RequestMerchants == {"Costco", "Target"}

WellFormedBodies ==
    [amount : RequestAmounts, name : {"x"}, card : RequestCards,
     merchant : RequestMerchants, date : RequestDates]

\* a body without "date", and one with a sixth key
MalformedBodies ==
    {[amount |-> Str_6_22, name |-> "x", card |-> "Chase", merchant |-> "Costco"],
     [amount |-> Str_6_22, name |-> "x", card |-> "Chase", merchant |-> "Costco",
      date |-> Str_2025_08_09, memo |-> "x"]}

Bodies == WellFormedBodies \cup MalformedBodies

RequestAccounts ==
    {<<>>,
     <<[name |-> "Chase", id |-> "acc-1"]>>,
     <<[name |-> "Chase", id |-> "A1"], [name |-> "Chase", id |-> "A2"]>>}

CategoryIds == {None, Some(""), Some("cat-9")}
MerchantEntries == [name : {"Costco"}, category_id : CategoryIds]

Init ==
    /\ ynab_secrets \in [accounts : RequestAccounts,
                         merchants : SeqsUpTo(MerchantEntries, MaxMerchants)]
    /\ iso_extended \in BOOLEAN
    /\ method \in {"POST", "GET"}
    /\ pc = "process_request"
    /\ data = None /\ transactionDto = None /\ kwargs = <<>> /\ transaction = None
    /\ failure = None /\ create_calls = 0 /\ resp = None
    /\ arg = <<>> /\ ret = None

make_response(text, about, status) ==
    Some([status |-> status, text |-> text, about |-> about])

\* as ArgumentOrder, with amount= written before date=
ArgumentOrderAmountFirst == <<"account_id", "amount", "date">>

\* main.py:101-103: the keyword arguments of ynab.NewTransaction(...) that can
\* raise, in the order written, which is the order Python evaluates them in
ArgumentOrder == <<"account_id", "date", "amount">>

\* the position after argument `name`
After(name) ==
    LET i == CHOOSE k \in 1..Len(ArgumentOrder) : ArgumentOrder[k] = name
    IN  IF i < Len(ArgumentOrder) THEN ArgumentOrder[i + 1] ELSE "payee_name"

\* main.py:136-137: any method but POST is turned away
CheckMethod ==
    /\ pc = "process_request"
    /\ IF method # "POST"
       THEN /\ resp' = make_response("Method Not Allowed", "", 405)
            /\ pc' = "done"
       ELSE /\ pc' = "get_json"
            /\ UNCHANGED resp
    /\ UNCHANGED <<ynab_secrets, iso_extended, method, data, transactionDto,
                   kwargs, transaction, failure, create_calls, arg, ret>>

\* main.py:139-145: TransactionPostDto(**data) raises TypeError unless the
\* keys of data are exactly the five fields (a body get_json() itself refuses
\* never reaches this code)
BuildDto ==
    /\ pc = "get_json"
    /\ \E body \in Bodies :
         /\ data' = Some(body)
         /\ IF DOMAIN body = Fields
            THEN /\ transactionDto' = Some(body)
                 /\ pc' = ArgumentOrder[1]
                 /\ UNCHANGED resp
            ELSE /\ resp' = make_response("Bad Request: Invalid request format.", "", 400)
                 /\ pc' = "done"
                 /\ UNCHANGED transactionDto
    /\ UNCHANGED <<ynab_secrets, iso_extended, method, kwargs, transaction,
                   failure, create_calls, arg, ret>>

\* as EvalArgument, with the exception reported as a server error
EvalArgumentServerError(name, r) ==
    /\ pc = name
    /\ IF r.ok
       THEN /\ kwargs' = kwargs @@ (name :> r.val)
            /\ pc' = After(name)
            /\ UNCHANGED <<failure, resp>>
       ELSE /\ failure' = Some(r.err)
            /\ resp' = make_response("Unable to Post Transaction", "", 500)
            /\ pc' = "done"
            /\ UNCHANGED kwargs
    /\ UNCHANGED <<ynab_secrets, iso_extended, method, data, transactionDto,
                   transaction, create_calls, arg, ret>>

\* One keyword argument, evaluated to r: its value is kept, or its exception
\* ends parse_transaction and is caught at main.py:149-151.
EvalArgument(name, r) ==
    /\ pc = name
    /\ IF r.ok
       THEN /\ kwargs' = kwargs @@ (name :> r.val)
            /\ pc' = After(name)
            /\ UNCHANGED <<failure, resp>>
       ELSE /\ failure' = Some(r.err)
            /\ resp' = make_response("Bad Request: ", r.err, 400)
            /\ pc' = "done"
            /\ UNCHANGED kwargs
    /\ UNCHANGED <<ynab_secrets, iso_extended, method, data, transactionDto,
                   transaction, create_calls, arg, ret>>

\* main.py:101
EvalAccountId ==
    EvalArgument("account_id", get_account_id_from_card_name(transactionDto[1].card))

\* main.py:102
EvalDate ==
    EvalArgument("date", parse_date(transactionDto[1].date))

\* main.py:103
EvalAmount ==
    EvalArgument("amount", parse_amount(transactionDto[1].amount))

\* main.py:104-108: the last two arguments raise nothing, and the transaction
\* is built (the SDK's constructor is taken to accept a str account_id, a date,
\* an int amount and optional strings)
NewTransaction ==
    /\ pc = "payee_name"
    /\ transaction' =
         Some(kwargs @@ ("payee_name" :> transactionDto[1].merchant)
                     @@ ("category_id" :>
                           get_category_id_from_merchant_name(transactionDto[1].merchant)))
    /\ pc' = "post_transaction"
    /\ UNCHANGED <<ynab_secrets, iso_extended, method, data, transactionDto,
                   kwargs, failure, create_calls, resp, arg, ret>>

\* as PostTransaction, with a failed call tried once more
PostTransactionWithRetry ==
    /\ pc = "post_transaction"
    /\ create_calls' = create_calls + 1
    /\ \E api_ok \in BOOLEAN :
         IF api_ok
         THEN /\ pc' = "posted"
              /\ UNCHANGED <<failure, resp>>
         ELSE IF create_calls < 1
         THEN /\ pc' = "post_transaction"
              /\ UNCHANGED <<failure, resp>>
         ELSE /\ failure' = Some("ApiException")
              /\ resp' = make_response("Unable to Post Transaction", "", 500)
              /\ pc' = "done"
    /\ UNCHANGED <<ynab_secrets, iso_extended, method, data, transactionDto,
                   kwargs, transaction, arg, ret>>

\* main.py:111-118 and 153-157: one create_transaction call, which the API
\* answers or fails
PostTransaction ==
    /\ pc = "post_transaction"
    /\ create_calls' = create_calls + 1
    /\ \E api_ok \in BOOLEAN :
         IF api_ok
         THEN /\ pc' = "posted"
              /\ UNCHANGED <<failure, resp>>
         ELSE /\ failure' = Some("ApiException")
              /\ resp' = make_response("Unable to Post Transaction", "", 500)
              /\ pc' = "done"
    /\ UNCHANGED <<ynab_secrets, iso_extended, method, data, transactionDto,
                   kwargs, transaction, arg, ret>>

\* as NotCategoryId, written `transaction.category_id is None`
CategoryIdIsNone(t) == t.category_id = None

\* `not transaction.category_id`: None and the empty string are falsy
NotCategoryId(t) == t.category_id = None \/ t.category_id = Some("")

\* main.py:159-166
Respond ==
    /\ pc = "posted"
    /\ IF NotCategoryId(transaction[1])
       THEN resp' = make_response("Transaction Posted. needs to be categorized",
                                  transactionDto[1].merchant, 200)
       ELSE resp' = make_response("Transaction Posted", "", 200)
    /\ pc' = "done"
    /\ UNCHANGED <<ynab_secrets, iso_extended, method, data, transactionDto,
                   kwargs, transaction, failure, create_calls, arg, ret>>

Next ==
    \/ CheckMethod
    \/ BuildDto
    \/ EvalAccountId
    \/ EvalDate
    \/ EvalAmount
    \/ NewTransaction
    \/ PostTransaction
    \/ Respond

Spec == Init /\ [][Next]_vars

-----------------------------------------------------------------------------
(* What the properties below speak of *)

Dto == transactionDto[1]

Accounts == ynab_secrets.accounts
Merchants == ynab_secrets.merchants

CardKnown == \E i \in 1..Len(Accounts) : Accounts[i].name = Dto.card
DateValid == parse_date(Dto.date).ok
AmountValid == parse_amount(Dto.amount).ok
Mapped == CardKnown /\ DateValid /\ AmountValid

MerchantUnknown == \A i \in 1..Len(Merchants) : Merchants[i].name # Dto.merchant

\* the request got as far as a TransactionPostDto and has been answered
Answered == pc = "done" /\ method = "POST" /\ transactionDto # None

Status == resp[1].status
Advisory == resp[1].text = "Transaction Posted. needs to be categorized"

DeclaredErrors == {"InvalidAmount", "InvalidDate", "AccountNotFound"}

\* a decimal numeral: an optional sign, digits, and optionally a point with
\* digits after it
IsDecimalNumeral(s) ==
    LET body == IF s # <<>> /\ s[1] \in {"+", "-"} THEN Tail(s) ELSE s
        p    == PointAt(body)
    IN  IF p = 0 THEN body # <<>> /\ AllDigits(body)
        ELSE /\ 1 < p /\ p < Len(body)
             /\ AllDigits(SubSeq(body, 1, p - 1))
             /\ AllDigits(SubSeq(body, p + 1, Len(body)))

\* the same, a digit missing on one side of the point allowed (".5", "5.")
IsDecimalNumber(s) ==
    LET body == IF s # <<>> /\ s[1] \in {"+", "-"} THEN Tail(s) ELSE s
        p    == PointAt(body)
        ip   == IF p = 0 THEN body ELSE SubSeq(body, 1, p - 1)
        fp   == IF p = 0 THEN <<>> ELSE SubSeq(body, p + 1, Len(body))
    IN  AllDigits(ip) /\ AllDigits(fp) /\ Len(ip) + Len(fp) > 0

\* s without one leading currency symbol
WithoutSymbol(s) == IF s # <<>> /\ s[1] = "$" THEN Tail(s) ELSE s

\* a decimal numeral s is Unscaled(s) / Scale(s)
Unscaled(s) ==
    LET neg  == s[1] = "-"
        body == IF s[1] \in {"+", "-"} THEN Tail(s) ELSE s
        n    == DigitsToInt(SelectSeq(body, IsDigit))
    IN  IF neg THEN 0 - n ELSE n

Scale(s) == IF PointAt(s) = 0 THEN 1 ELSE Pow10(Len(s) - PointAt(s))

Abs(x) == IF x < 0 THEN 0 - x ELSE x

\* v is n * 1000 / d rounded to a nearest integer
IsRounded(v, n, d) == 2 * Abs(v * d - 1000 * n) <= d

\* the form YYYY-MM-DD of a date that exists
IsCalendarDate(s) ==
    /\ Len(s) = 10 /\ s[5] = "-" /\ s[8] = "-"
    /\ AllDigits(SubSeq(s, 1, 4)) /\ AllDigits(SubSeq(s, 6, 7))
    /\ AllDigits(SubSeq(s, 9, 10))
    /\ LET y == DigitsToInt(SubSeq(s, 1, 4))
           m == DigitsToInt(SubSeq(s, 6, 7))
           d == DigitsToInt(SubSeq(s, 9, 10))
       IN  /\ y >= 1 /\ m \in 1..12
           /\ d >= 1
           /\ d <= (IF m = 2
                    THEN (IF y % 4 = 0 /\ (y % 100 # 0 \/ y % 400 = 0) THEN 29 ELSE 28)
                    ELSE IF m \in {4, 6, 9, 11} THEN 30 ELSE 31)

CalendarDate(s) ==
    [year  |-> DigitsToInt(SubSeq(s, 1, 4)),
     month |-> DigitsToInt(SubSeq(s, 6, 7)),
     day   |-> DigitsToInt(SubSeq(s, 9, 10))]

-----------------------------------------------------------------------------
(* The properties *)

\* C1: in one request create_transaction is called exactly once when the
\* method is POST, the body builds a TransactionPostDto and the mapping returned
\* a transaction, and not at all in every other case; it is never called a
\* second time, whether the first call succeeded or failed.
C1_CreateCalledOnceIffMapped ==
    /\ create_calls <= 1
    /\ create_calls = 1 => (method = "POST" /\ transactionDto # None /\ Mapped)
    /\ pc = "done" =>
         (create_calls = 1 <=> (method = "POST" /\ transactionDto # None /\ Mapped))

C1_Witness_CalledOnceAndFailed ==
    pc = "done" /\ create_calls = 1 /\ failure = Some("ApiException")

\* C2: for every well-formed decimal string, optionally prefixed with a
\* currency symbol, parse_amount returns the decimal times 1000 rounded to an
\* integer ("$6.22" gives 6220, "-3.5" gives -3500).
C2_AmountIsRoundedMilliunits ==
    (pc = "returned" /\ IsDecimalNumeral(WithoutSymbol(arg))) =>
        /\ ret[1].ok
        /\ IsRounded(ret[1].val, Unscaled(WithoutSymbol(arg)),
                     Scale(WithoutSymbol(arg)))

\* C3: for every amount string that is no decimal number once one leading
\* currency symbol and the surrounding whitespace are stripped, parse_amount
\* fails with InvalidAmount.
C3_MalformedAmountIsInvalid ==
    (pc = "returned" /\ ~IsDecimalNumber(Strip(WithoutSymbol(Strip(arg))))) =>
        ret[1] = Raise("InvalidAmount")

\* C4: a POST request with a well-formed body is answered 400 whenever the
\* mapping fails with InvalidAmount, InvalidDate or AccountNotFound, 500
\* whenever the mapping succeeds and create_transaction fails, and 200 only
\* when both succeeded; no mapping error yields 500 or 200 and no submission
\* failure yields 400 or 200.
C4_StatusByFailureClass ==
    Answered =>
        /\ (failure # None /\ failure[1] \in DeclaredErrors) => Status = 400
        /\ ~Mapped => Status = 400
        /\ (Mapped /\ failure = Some("ApiException")) => Status = 500
        /\ Status = 200 => (Mapped /\ failure = None /\ create_calls = 1)
        /\ Status = 500 => (Mapped /\ failure = Some("ApiException"))
        /\ Status = 400 => (~Mapped /\ create_calls = 0)
        /\ Status \in {200, 400, 500}

C4_Witness_ServerErrorAfterMapping ==
    Answered /\ transaction # None /\ Status = 500

\* C5: parse_transaction either returns a complete transaction or fails with
\* exactly one of InvalidAmount, InvalidDate, AccountNotFound, and with no
\* other kind of failure.
C5_OnlyDeclaredFailures ==
    (transactionDto # None /\ transaction = None /\ failure # None) =>
        failure[1] \in DeclaredErrors

\* C6: get_account_id_from_card_name returns the id of the first entry, in
\* accounts order, whose name equals the card name exactly, also when later
\* entries have that name, and fails with AccountNotFound when none has.
C6_FirstExactMatch ==
    pc = "returned" =>
        IF \E i \in 1..Len(Accounts) : Accounts[i].name = arg
        THEN \E i \in 1..Len(Accounts) :
                 /\ Accounts[i].name = arg
                 /\ \A j \in 1..(i - 1) : Accounts[j].name # arg
                 /\ ret[1] = Return(Accounts[i].id)
        ELSE ret[1] = Raise("AccountNotFound")

C6_Witness_FirstOfTwoAfterNearMiss ==
    /\ pc = "returned" /\ arg = "Chase" /\ Len(Accounts) = 3
    /\ Accounts[1] = [name |-> "chase", id |-> "A1"]
    /\ Accounts[2] = [name |-> "Chase", id |-> "A2"]
    /\ Accounts[3] = [name |-> "Chase", id |-> "A1"]
    /\ ret[1] = Return("A2")

\* C7: a purchase whose card, date and amount are valid and whose merchant
\* matches no entry of merchants is mapped, with category_id absent and
\* payee_name the merchant verbatim; the transaction is submitted, and when the
\* submission succeeds the response is 200 with the 'needs to be categorized'
\* advisory.  The unknown merchant causes no error response.
C7_UnknownMerchantIsPosted ==
    (transactionDto # None /\ Mapped /\ MerchantUnknown) =>
        /\ failure \in {None, Some("ApiException")}
        /\ transaction # None =>
             /\ transaction[1].category_id = None
             /\ transaction[1].payee_name = Dto.merchant
        /\ pc \in {"post_transaction", "posted", "done"} => transaction # None
        /\ pc \in {"posted", "done"} => create_calls = 1
        /\ pc = "done" =>
             IF failure = None
             THEN Status = 200 /\ Advisory /\ resp[1].about = Dto.merchant
             ELSE Status = 500

C7_Witness_UnknownMerchantAdvised ==
    /\ Answered /\ MerchantUnknown /\ Merchants # <<>>
    /\ Status = 200 /\ Advisory

\* C8: parse_date looks only at what precedes the first 'T': it returns the
\* date when that is the YYYY-MM-DD form of an existing date, and fails with
\* InvalidDate for every other string.
C8_OnlyCalendarDatesParse ==
    pc = "returned" =>
        ret[1] = IF IsCalendarDate(BeforeFirstT(arg))
                 THEN Return(CalendarDate(BeforeFirstT(arg)))
                 ELSE Raise("InvalidDate")

\* C9: parse_transaction takes its steps in the order account lookup, date,
\* amount, category and stops at the first failure: an unknown card fails with
\* AccountNotFound whatever the date and amount, a known card with a malformed
\* date fails with InvalidDate whatever the amount, InvalidAmount is reported
\* only when card and date are valid; process_request receives the failure of
\* that step unchanged.
C9_FirstFailureInOrder ==
    /\ pc = "date" => DOMAIN kwargs = {"account_id"}
    /\ pc = "amount" => DOMAIN kwargs = {"account_id", "date"}
    /\ Answered =>
         /\ ~CardKnown => failure = Some("AccountNotFound")
         /\ (CardKnown /\ ~DateValid) => failure = Some("InvalidDate")
         /\ (CardKnown /\ DateValid /\ ~AmountValid) =>
                failure = Some(parse_amount(Dto.amount).err)
         /\ failure = Some("InvalidAmount") => (CardKnown /\ DateValid)
         /\ ~Mapped => (Status = 400 /\ resp[1].about = failure[1])

C9_Witness_DateFailsBeforeAmount ==
    /\ Answered /\ CardKnown /\ ~DateValid /\ ~AmountValid
    /\ failure = Some("InvalidDate")

\* C10, as stated: on a 200 response the advisory is present if and only if
\* the merchant matches no entry of merchants, whatever category_id a matching
\* entry holds.
C10_AdvisoryIffMerchantUnknown ==
    (Answered /\ Status = 200) => (Advisory <=> MerchantUnknown)

\* C10, amended: on a 200 response the advisory is present if and only if the
\* merchant matches no entry of merchants or the first entry it matches holds
\* no category_id or an empty one; otherwise the response is the plain
\* 'Transaction Posted'.
C10_AdvisoryIffNoCategory ==
    (Answered /\ Status = 200) =>
        /\ Advisory <=>
             \/ MerchantUnknown
             \/ \E i \in 1..Len(Merchants) :
                    /\ Merchants[i].name = Dto.merchant
                    /\ \A j \in 1..(i - 1) : Merchants[j].name # Dto.merchant
                    /\ Merchants[i].category_id \in {None, Some("")}
        /\ ~Advisory => resp[1].text = "Transaction Posted"

C10_Witness_KnownMerchantAdvised ==
    /\ Answered /\ Status = 200 /\ Advisory /\ ~MerchantUnknown

=============================================================================
